---- MODULE Spec2Model ----
(***************************************************************************)
(* Model of the blog application's vote, comment and delete views          *)
(* (blog_app/blog/views.py, blog_app/comment/views.py) over the tables of  *)
(* blog_app/blog/models.py.                                                *)
(*                                                                         *)
(* Spec     : every request runs to completion before the next one starts; *)
(*            one action per view handler.                                 *)
(* SpecConc : vote requests run statement by statement and interleave; no  *)
(*            view opens a transaction, so every ORM statement commits on  *)
(*            its own.                                                     *)
(***************************************************************************)
EXTENDS Integers, FiniteSets, Sequences, TLC

\* ------------------------------------------------------------------ bounds
NumUsers == 2
MaxBlogs == 1
MaxComments == 2
\* requests received in one behaviour of Spec
MaxRequests == 4
\* users who send requests in SpecConc
NumVoters == 1
\* requests received in one behaviour of SpecConc
MaxInterleaved == 3
\* SpecTree: blogs, comments ever created, requests, clock ticks
TreeBlogs == 2
MaxTreeComments == 3
MaxTreeTime == 1

Users == 1..NumUsers
Voters == 1..NumVoters
BlogIds == 1..MaxBlogs
CommentIds == 1..MaxComments

\* vote_type choices of BlogVote / CommentVote
VoteTypes == {"upvote", "downvote"}
\* what a client may send as vote_type
VoteInputs == VoteTypes \cup {"sideways"}

\* None / null foreign key
None == 0

\* ------------------------------------------------------ users and text
\* CustomUser.username of user u; usernames are unique
Username(u) == <<"user", u>>

\* an email address: the part before the @ and the domain after it
Email(u) == [local |-> Username(u), domain |-> <<"b">>]

\* the accounts of the users who send the blog and comment requests
Registered == [u \in Users |-> [username |-> Username(u), email |-> Email(u)]]

\* a username no user has
NoSuchName == <<"user", None>>

\* User.objects.filter(username=name): the user of that name, or None
UserNamed(name) ==
    IF \E u \in Users : Username(u) = name
    THEN CHOOSE u \in Users : Username(u) = name
    ELSE None

\* Text is a sequence of characters; the letters of the model's alphabet
Lower(ch) == CASE ch = "A" -> "a" [] ch = "B" -> "b" [] OTHER -> ch

LowerText(t) == [i \in 1..Len(t) |-> Lower(t[i])]

\* field__icontains=needle: needle occurs in text, letter case ignored
IContains(text, needle) ==
    \E i \in 0..(Len(text) - Len(needle)) :
        SubSeq(LowerText(text), i + 1, i + Len(needle)) = LowerText(needle)

\* the request data of the blog a client posts when nothing else is said:
\* a draft without tags
Draft == [title |-> <<"b">>, category |-> <<"b">>, tags |-> {},
          is_published |-> FALSE]

VARIABLES
    blogs,          \* table Blog:        id -> [author, title, category, tags,
                    \*                           is_published, upvote_count, downvote_count]
    blogVotes,      \* table BlogVote:    id -> [user, blog, vote_type]
    comments,       \* table Comment:     id -> [blog, author, parent, created_at,
                    \*                           upvotes, downvotes]
    commentVotes,   \* table CommentVote: id -> [user, comment, vote_type]
    seq,            \* the tables' auto-increment counters
    reqs,           \* vote requests in flight: worker -> local variables
    nreq,           \* number of requests received so far
    last,           \* the response to the most recently completed request
    now,            \* the clock (timezone.now(), time.time())
    cache,          \* django.core.cache: key -> [data, expires]
    users           \* table CustomUser: id -> [username, email]

dbvars == <<blogs, blogVotes, comments, commentVotes, seq>>
vars == <<blogs, blogVotes, comments, commentVotes, seq, reqs, nreq, last, now, cache,
          users>>

\* ------------------------------------------------------- generic helpers
Without(f, S) == [x \in DOMAIN f \ S |-> f[x]]

Min(S) == CHOOSE x \in S : \A y \in S : x <= y

Other(v) == IF v = "upvote" THEN "downvote" ELSE "upvote"

\* ------------------------------------------------------------- responses
\* The response handed back for a request: the return statement (or uncaught
\* exception) that produced it, its HTTP status and, for a successful blog
\* vote, the body <<upvotes, downvotes>> (<<>> otherwise).
\* An exception no view catches is answered 500 by the logging middleware.
Respond(exit, status, body) ==
    last' = [exit |-> exit, status |-> status, body |-> body]

\* --------------------------------------------------- tables and constraints
\* BlogVote.objects.filter(user=u, blog=b): the matching rows' ids
BlogVoteIdsOf(u, b) ==
    {i \in DOMAIN blogVotes : blogVotes[i].user = u /\ blogVotes[i].blog = b}

\* ... .first(): the row with the lowest pk, or None
ExistingBlogVote(u, b) ==
    IF BlogVoteIdsOf(u, b) = {} THEN None ELSE Min(BlogVoteIdsOf(u, b))

\* CommentVote.objects.filter(user=u, comment=c)
CommentVoteIdsOf(u, c) ==
    {i \in DOMAIN commentVotes :
        commentVotes[i].user = u /\ commentVotes[i].comment = c}

ExistingCommentVote(u, c) ==
    IF CommentVoteIdsOf(u, c) = {} THEN None ELSE Min(CommentVoteIdsOf(u, c))

\* faulty variant: BlogVote without its unique_together
BlogVoteInsertOk_NoUnique(u, b) == b \in DOMAIN blogs

\* unique_together = ("user", "blog") and the foreign key BlogVote.blog:
\* the database refuses the INSERT otherwise (IntegrityError)
BlogVoteInsertOk(u, b) ==
    /\ b \in DOMAIN blogs
    /\ BlogVoteIdsOf(u, b) = {}

\* unique_together = ("user", "comment") and the foreign key CommentVote.comment
CommentVoteInsertOk(u, c) ==
    /\ c \in DOMAIN comments
    /\ CommentVoteIdsOf(u, c) = {}

\* PositiveIntegerField: the database refuses a negative counter
BlogCountsOk(blog) == blog.upvote_count >= 0 /\ blog.downvote_count >= 0

CommentCountsOk(comment) == comment.upvotes >= 0 /\ comment.downvotes >= 0

\* ------------------------------------------------------- counter updates
\* faulty variant: the flip forgets to decrement the old counter
FlipBlogCounts_NoDecrement(blog, old, new) ==
    IF new = "upvote"
    THEN [blog EXCEPT !.upvote_count = @ + 1]
    ELSE [blog EXCEPT !.downvote_count = @ + 1]

\* blog vote, existing vote of the other type: decrement old, increment new
FlipBlogCounts(blog, old, new) ==
    LET dec == IF old = "upvote"
               THEN [blog EXCEPT !.upvote_count = @ - 1]
               ELSE [blog EXCEPT !.downvote_count = @ - 1]
    IN  IF new = "upvote"
        THEN [dec EXCEPT !.upvote_count = @ + 1]
        ELSE [dec EXCEPT !.downvote_count = @ + 1]

\* faulty variant: a new vote increments the other counter
IncBlogCounts_Swapped(blog, v) ==
    IF v = "upvote"
    THEN [blog EXCEPT !.downvote_count = @ + 1]
    ELSE [blog EXCEPT !.upvote_count = @ + 1]

\* blog vote, no existing vote: increment the matching counter
IncBlogCounts(blog, v) ==
    IF v = "upvote"
    THEN [blog EXCEPT !.upvote_count = @ + 1]
    ELSE [blog EXCEPT !.downvote_count = @ + 1]

Max0(n) == IF n > 0 THEN n ELSE 0

\* comment vote, existing vote of the other type: max(old - 1, 0), new + 1
FlipCommentCounts(comment, old, new) ==
    LET dec == IF old = "upvote"
               THEN [comment EXCEPT !.upvotes = Max0(@ - 1)]
               ELSE [comment EXCEPT !.downvotes = Max0(@ - 1)]
    IN  IF new = "upvote"
        THEN [dec EXCEPT !.upvotes = @ + 1]
        ELSE [dec EXCEPT !.downvotes = @ + 1]

\* faulty variant: a new comment vote always counts as an upvote
IncCommentCounts_AlwaysUp(comment, v) ==
    [comment EXCEPT !.upvotes = @ + 1]

\* comment vote, no existing vote: increment the matching counter
IncCommentCounts(comment, v) ==
    IF v = "upvote"
    THEN [comment EXCEPT !.upvotes = @ + 1]
    ELSE [comment EXCEPT !.downvotes = @ + 1]

\* ------------------------------------------------------- cascading delete
\* related_name="replies": the comments whose parent is in S
Replies(S) == {c \in DOMAIN comments : comments[c].parent \in S}

\* S with every comment reachable from it through parent (on_delete=CASCADE)
RECURSIVE Subtree(_)
Subtree(S) ==
    LET T == (S \cup Replies(S)) \cap DOMAIN comments
    IN  IF T = S \cap DOMAIN comments THEN T ELSE Subtree(T)

\* related_name="comments": the comments of blog b
CommentsOfBlog(b) == {c \in DOMAIN comments : comments[c].blog = b}

\* CommentVote.comment on_delete=CASCADE
CommentVotesOn(S) == {i \in DOMAIN commentVotes : commentVotes[i].comment \in S}

\* BlogVote.blog on_delete=CASCADE
BlogVotesOn(b) == {i \in DOMAIN blogVotes : blogVotes[i].blog = b}

\* faulty variant: the delete removes the comment and its votes but leaves
\* its replies (and their votes) behind
DeleteComment_KeepsReplies(c) ==
    /\ comments' = Without(comments, {c})
    /\ commentVotes' = Without(commentVotes, CommentVotesOn({c}))
    /\ UNCHANGED <<blogs, blogVotes, seq>>

\* comment.delete(): the comment, its replies at any depth, and their votes
DeleteComment(c) ==
    /\ comments' = Without(comments, Subtree({c}))
    /\ commentVotes' = Without(commentVotes, CommentVotesOn(Subtree({c})))
    /\ UNCHANGED <<blogs, blogVotes, seq>>

\* faulty variant: the votes on the blog's comments survive the blog
DeleteBlog_KeepsCommentVotes(b) ==
    /\ blogs' = Without(blogs, {b})
    /\ blogVotes' = Without(blogVotes, BlogVotesOn(b))
    /\ comments' = Without(comments, Subtree(CommentsOfBlog(b)))
    /\ UNCHANGED <<commentVotes, seq>>

\* blog.delete(): the blog, its votes, its comments with their replies and votes
DeleteBlog(b) ==
    /\ blogs' = Without(blogs, {b})
    /\ blogVotes' = Without(blogVotes, BlogVotesOn(b))
    /\ comments' = Without(comments, Subtree(CommentsOfBlog(b)))
    /\ commentVotes' = Without(commentVotes, CommentVotesOn(Subtree(CommentsOfBlog(b))))
    /\ UNCHANGED seq

\* Model.save() of a loaded row: UPDATE ... WHERE id = pk, and an INSERT of the
\* row under its old pk when the UPDATE matched nothing
SaveRow(table, id, row) ==
    [x \in DOMAIN table \cup {id} |-> IF x = id THEN row ELSE table[x]]

\* ------------------------------------------------------------------ Init
Init ==
    /\ blogs = <<>>
    /\ blogVotes = <<>>
    /\ comments = <<>>
    /\ commentVotes = <<>>
    /\ seq = [blog |-> 0, blogVote |-> 0, comment |-> 0, commentVote |-> 0]
    /\ reqs = <<>>
    /\ nreq = 0
    /\ last = [exit |-> "none", status |-> 0, body |-> <<>>]
    /\ now = 0
    /\ cache = <<>>
    /\ users = Registered

\* a request is received (max bounds the length of a behaviour)
Receive(max) == nreq < max /\ nreq' = nreq + 1

\* ------------------------------------------- whole requests (one at a time)
\* POST /blogs/add/ {title, category, tags, is_published} by user u:
\* BlogSerializer validation (every tag names a user), then
\* Blog.objects.create and blog.tags.set
BlogCreate(u, post) ==
    IF \E name \in post.tags : UserNamed(name) = None
    THEN Respond("blog_create.invalid", 400, <<>>) /\ UNCHANGED dbvars
    ELSE /\ blogs' = SaveRow(blogs, seq.blog + 1,
                             [author |-> u, title |-> post.title,
                              category |-> post.category,
                              tags |-> {UserNamed(name) : name \in post.tags},
                              is_published |-> post.is_published,
                              upvote_count |-> 0, downvote_count |-> 0])
         /\ seq' = [seq EXCEPT !.blog = @ + 1]
         /\ Respond("blog_create.created", 201, <<>>)
         /\ UNCHANGED <<blogVotes, comments, commentVotes>>

\* the body of a successful blog vote
BlogVoteBody(blog) == <<blog.upvote_count, blog.downvote_count>>

\* faulty variant: the blog view reports the repeated vote as a conflict
BlogVoteSame_Conflict(blog) ==
    /\ Respond("blog_vote.same", 400, <<>>)
    /\ UNCHANGED dbvars

\* blog vote, the user's vote has the requested type already: nothing is written
BlogVoteSame(blog) ==
    /\ Respond("blog_vote.same", 200, BlogVoteBody(blog))
    /\ UNCHANGED dbvars

\* blog vote, the user's vote has the other type
BlogVoteFlip(b, blog, existing, v) ==
    LET nb == FlipBlogCounts(blog, blogVotes[existing].vote_type, v)
    IN  /\ blogVotes' = SaveRow(blogVotes, existing,
                                [blogVotes[existing] EXCEPT !.vote_type = v])
        /\ IF BlogCountsOk(nb)
           THEN /\ blogs' = SaveRow(blogs, b, nb)
                /\ Respond("blog_vote.flipped", 200, BlogVoteBody(nb))
           ELSE /\ blogs' = blogs
                /\ Respond("blog_vote.error", 500, <<>>)
        /\ UNCHANGED <<comments, commentVotes, seq>>

\* blog vote, the user has no vote on the blog
BlogVoteNew(u, b, blog, v) ==
    IF ~BlogVoteInsertOk(u, b)
    THEN Respond("blog_vote.error", 500, <<>>) /\ UNCHANGED dbvars
    ELSE LET nb == IncBlogCounts(blog, v)
         IN  /\ blogVotes' = SaveRow(blogVotes, seq.blogVote + 1,
                                     [user |-> u, blog |-> b, vote_type |-> v])
             /\ seq' = [seq EXCEPT !.blogVote = @ + 1]
             /\ blogs' = SaveRow(blogs, b, nb)
             /\ Respond("blog_vote.created", 200, BlogVoteBody(nb))
             /\ UNCHANGED <<comments, commentVotes>>

\* POST /blogs/<b>/vote/ {vote_type: v} by user u
BlogVotePost(u, b, v) ==
    IF b \notin DOMAIN blogs
    THEN \* Blog.objects.get raises Blog.DoesNotExist, which nothing catches
         Respond("blog_vote.missing", 500, <<>>) /\ UNCHANGED dbvars
    ELSE IF v \notin VoteTypes
    THEN Respond("blog_vote.invalid", 400, <<>>) /\ UNCHANGED dbvars
    ELSE IF ExistingBlogVote(u, b) = None
    THEN BlogVoteNew(u, b, blogs[b], v)
    ELSE IF blogVotes[ExistingBlogVote(u, b)].vote_type # v
    THEN BlogVoteFlip(b, blogs[b], ExistingBlogVote(u, b), v)
    ELSE BlogVoteSame(blogs[b])

\* DELETE /blogs/<b>/delete/ by user u
BlogDelete(u, b) ==
    IF b \notin DOMAIN blogs
    THEN Respond("blog_delete.missing", 500, <<>>) /\ UNCHANGED dbvars
    ELSE IF blogs[b].author = u
    THEN DeleteBlog(b) /\ Respond("blog_delete.deleted", 204, <<>>)
    ELSE Respond("blog_delete.denied", 403, <<>>) /\ UNCHANGED dbvars

\* DELETE /blogs/<b>/ by user u (RetrieveUpdateDestroyAPIView.destroy)
BlogDestroy(u, b) ==
    IF b \notin DOMAIN blogs
    THEN Respond("blog_destroy.missing", 404, <<>>) /\ UNCHANGED dbvars
    ELSE DeleteBlog(b) /\ Respond("blog_destroy.deleted", 204, <<>>)

\* faulty variant: the parent's blog is not compared with the blog of the URL
CommentCreate_AnyBlogParent(u, b, p) ==
    IF b \notin DOMAIN blogs
    THEN Respond("comment_create.no_blog", 404, <<>>) /\ UNCHANGED dbvars
    ELSE IF p # None /\ p \notin DOMAIN comments
    THEN Respond("comment_create.no_parent", 400, <<>>) /\ UNCHANGED dbvars
    ELSE /\ comments' = SaveRow(comments, seq.comment + 1,
                                [blog |-> b, author |-> u, parent |-> p,
                                 created_at |-> now,
                                 upvotes |-> 0, downvotes |-> 0])
         /\ seq' = [seq EXCEPT !.comment = @ + 1]
         /\ Respond("comment_create.created", 201, <<>>)
         /\ UNCHANGED <<blogs, blogVotes, commentVotes>>

\* faulty variant: the parent is taken as sent, without looking it up
CommentCreate_ParentUnchecked(u, b, p) ==
    IF b \notin DOMAIN blogs
    THEN Respond("comment_create.no_blog", 404, <<>>) /\ UNCHANGED dbvars
    ELSE /\ comments' = SaveRow(comments, seq.comment + 1,
                                [blog |-> b, author |-> u, parent |-> p,
                                 created_at |-> now,
                                 upvotes |-> 0, downvotes |-> 0])
         /\ seq' = [seq EXCEPT !.comment = @ + 1]
         /\ Respond("comment_create.created", 201, <<>>)
         /\ UNCHANGED <<blogs, blogVotes, commentVotes>>

\* POST /blogs/<b>/comments/ {parent: p} by user u
CommentCreate(u, b, p) ==
    IF b \notin DOMAIN blogs
    THEN Respond("comment_create.no_blog", 404, <<>>) /\ UNCHANGED dbvars
    ELSE IF p # None /\ p \notin DOMAIN comments
    THEN Respond("comment_create.no_parent", 400, <<>>) /\ UNCHANGED dbvars
    ELSE IF p # None /\ comments[p].blog # b
    THEN Respond("comment_create.other_blog", 400, <<>>) /\ UNCHANGED dbvars
    ELSE /\ comments' = SaveRow(comments, seq.comment + 1,
                                [blog |-> b, author |-> u, parent |-> p,
                                 created_at |-> now,
                                 upvotes |-> 0, downvotes |-> 0])
         /\ seq' = [seq EXCEPT !.comment = @ + 1]
         /\ Respond("comment_create.created", 201, <<>>)
         /\ UNCHANGED <<blogs, blogVotes, commentVotes>>

\* faulty variant: the comment view accepts the repeated vote silently
CommentVoteSame_Silent(comment) ==
    /\ Respond("comment_vote.already", 200, <<>>)
    /\ UNCHANGED dbvars

\* comment vote, the user's vote has the requested type already
CommentVoteSame(comment) ==
    /\ Respond("comment_vote.already", 400, <<>>)
    /\ UNCHANGED dbvars

\* faulty variant: the flip adjusts the counters but never saves the vote row
CommentVoteFlip_RowNotSaved(c, comment, existing, v) ==
    LET nc == FlipCommentCounts(comment, commentVotes[existing].vote_type, v)
    IN  /\ comments' = SaveRow(comments, c, nc)
        /\ Respond("comment_vote.updated", 200, <<>>)
        /\ UNCHANGED <<blogs, blogVotes, commentVotes, seq>>

\* comment vote, the user's vote has the other type
CommentVoteFlip(c, comment, existing, v) ==
    LET nc == FlipCommentCounts(comment, commentVotes[existing].vote_type, v)
    IN  /\ commentVotes' = SaveRow(commentVotes, existing,
                                   [commentVotes[existing] EXCEPT !.vote_type = v])
        /\ IF CommentCountsOk(nc)
           THEN /\ comments' = SaveRow(comments, c, nc)
                /\ Respond("comment_vote.updated", 200, <<>>)
           ELSE /\ comments' = comments
                /\ Respond("comment_vote.error", 500, <<>>)
        /\ UNCHANGED <<blogs, blogVotes, seq>>

\* comment vote, the user has no vote on the comment
CommentVoteNew(u, c, comment, v) ==
    IF ~CommentVoteInsertOk(u, c)
    THEN Respond("comment_vote.error", 500, <<>>) /\ UNCHANGED dbvars
    ELSE LET nc == IncCommentCounts(comment, v)
         IN  /\ commentVotes' = SaveRow(commentVotes, seq.commentVote + 1,
                                        [user |-> u, comment |-> c, vote_type |-> v])
             /\ seq' = [seq EXCEPT !.commentVote = @ + 1]
             /\ comments' = SaveRow(comments, c, nc)
             /\ Respond("comment_vote.created", 200, <<>>)
             /\ UNCHANGED <<blogs, blogVotes>>

\* POST /comments/<c>/vote/ {vote_type: v} by user u
CommentVotePost(u, c, v) ==
    IF c \notin DOMAIN comments
    THEN Respond("comment_vote.missing", 404, <<>>) /\ UNCHANGED dbvars
    ELSE IF v \notin VoteTypes
    THEN Respond("comment_vote.invalid", 400, <<>>) /\ UNCHANGED dbvars
    ELSE IF ExistingCommentVote(u, c) = None
    THEN CommentVoteNew(u, c, comments[c], v)
    ELSE IF commentVotes[ExistingCommentVote(u, c)].vote_type = v
    THEN CommentVoteSame(comments[c])
    ELSE CommentVoteFlip(c, comments[c], ExistingCommentVote(u, c), v)

\* faulty variant: any authenticated user deletes the comment
CommentDelete_NoAuthorCheck(u, c) ==
    IF c \notin DOMAIN comments
    THEN Respond("comment_delete.missing", 404, <<>>) /\ UNCHANGED dbvars
    ELSE DeleteComment(c) /\ Respond("comment_delete.deleted", 204, <<>>)

\* DELETE /comments/<c>/delete/ by user u
CommentDelete(u, c) ==
    IF c \notin DOMAIN comments
    THEN Respond("comment_delete.missing", 404, <<>>) /\ UNCHANGED dbvars
    ELSE IF comments[c].author = u
    THEN DeleteComment(c) /\ Respond("comment_delete.deleted", 204, <<>>)
    ELSE Respond("comment_delete.denied", 403, <<>>) /\ UNCHANGED dbvars

\* a request handled from start to end with no other request in between
Whole(Handler) ==
    Receive(MaxRequests) /\ Handler /\ UNCHANGED <<reqs, now, cache, users>>

Next ==
    \/ \E u \in Users : seq.blog < MaxBlogs /\ Whole(BlogCreate(u, Draft))
    \/ \E u \in Users, b \in BlogIds, v \in VoteInputs : Whole(BlogVotePost(u, b, v))
    \/ \E u \in Users, b \in BlogIds : Whole(BlogDelete(u, b))
    \/ \E u \in Users, b \in BlogIds : Whole(BlogDestroy(u, b))
    \/ \E u \in Users, b \in BlogIds, p \in {None} \cup CommentIds :
          seq.comment < MaxComments /\ Whole(CommentCreate(u, b, p))
    \/ \E u \in Users, c \in CommentIds, v \in VoteInputs :
          Whole(CommentVotePost(u, c, v))
    \/ \E u \in Users, c \in CommentIds : Whole(CommentDelete(u, c))

Spec == Init /\ [][Next]_vars

\* ------------------------------ vote requests, one ORM statement at a time
\* Neither vote view opens a transaction: each query and each save() commits
\* on its own, and the statements of different requests interleave.  A request
\* keeps what it has read in local variables: obj is its copy of the Blog or
\* Comment row, existing the pk of the vote row it found (None if none).
\* The request is handled by the first idle worker.
NewRequest(kind, u, target, v, obj) ==
    reqs' = reqs @@ (Min((1..MaxInterleaved) \ DOMAIN reqs) :>
                [kind |-> kind, user |-> u, target |-> target, vote |-> v,
                 pc |-> "read_vote", obj |-> obj, existing |-> None])

Finish(r) == reqs' = Without(reqs, {r})

At(r, kind, pc) ==
    r \in DOMAIN reqs /\ reqs[r].kind = kind /\ reqs[r].pc = pc

\* blog = Blog.objects.get(id=blog_id); vote_type check
BlogVoteStart(u, b, v) ==
    /\ Receive(MaxInterleaved)
    /\ IF b \notin DOMAIN blogs
       THEN Respond("blog_vote.missing", 500, <<>>) /\ UNCHANGED reqs
       ELSE IF v \notin VoteTypes
       THEN Respond("blog_vote.invalid", 400, <<>>) /\ UNCHANGED reqs
       ELSE NewRequest("blog", u, b, v, blogs[b]) /\ UNCHANGED last
    /\ UNCHANGED <<dbvars, now, cache, users>>

\* existing_vote = BlogVote.objects.filter(user=request.user, blog=blog).first()
\* and, for a vote of the other type, the counter arithmetic on the local copy
BlogVoteRead(r) ==
    /\ At(r, "blog", "read_vote")
    /\ LET q == reqs[r]
           e == ExistingBlogVote(q.user, q.target)
       IN  IF e = None
           THEN /\ reqs' = [reqs EXCEPT ![r].pc = "write_vote"]
                /\ UNCHANGED <<dbvars, last>>
           ELSE IF blogVotes[e].vote_type = q.vote
           THEN BlogVoteSame(q.obj) /\ Finish(r)
           ELSE /\ reqs' = [reqs EXCEPT ![r].pc = "write_vote", ![r].existing = e,
                               ![r].obj = FlipBlogCounts(q.obj, blogVotes[e].vote_type,
                                                        q.vote)]
                /\ UNCHANGED <<dbvars, last>>
    /\ UNCHANGED <<nreq, now, cache, users>>

\* existing_vote.save(), or BlogVote.objects.create(...) and the increment of
\* the local copy's counter
BlogVoteWrite(r) ==
    /\ At(r, "blog", "write_vote")
    /\ LET q == reqs[r]
           row == [user |-> q.user, blog |-> q.target, vote_type |-> q.vote]
       IN  IF q.existing # None
           THEN IF q.existing \in DOMAIN blogVotes \/ BlogVoteInsertOk(q.user, q.target)
                THEN /\ blogVotes' = SaveRow(blogVotes, q.existing, row)
                     /\ reqs' = [reqs EXCEPT ![r].pc = "save"]
                     /\ UNCHANGED <<blogs, comments, commentVotes, seq, last>>
                ELSE /\ Respond("blog_vote.error", 500, <<>>)
                     /\ Finish(r)
                     /\ UNCHANGED dbvars
           ELSE IF BlogVoteInsertOk(q.user, q.target)
                THEN /\ blogVotes' = SaveRow(blogVotes, seq.blogVote + 1, row)
                     /\ seq' = [seq EXCEPT !.blogVote = @ + 1]
                     /\ reqs' = [reqs EXCEPT ![r].pc = "save",
                                    ![r].obj = IncBlogCounts(q.obj, q.vote)]
                     /\ UNCHANGED <<blogs, comments, commentVotes, last>>
                ELSE /\ Respond("blog_vote.error", 500, <<>>)
                     /\ Finish(r)
                     /\ UNCHANGED dbvars
    /\ UNCHANGED <<nreq, now, cache, users>>

\* blog.save() and the response
BlogVoteSave(r) ==
    /\ At(r, "blog", "save")
    /\ LET q == reqs[r]
       IN  IF BlogCountsOk(q.obj)
           THEN /\ blogs' = SaveRow(blogs, q.target, q.obj)
                /\ Respond(IF q.existing # None THEN "blog_vote.flipped"
                                                ELSE "blog_vote.created",
                           200, BlogVoteBody(q.obj))
           ELSE /\ blogs' = blogs
                /\ Respond("blog_vote.error", 500, <<>>)
    /\ Finish(r)
    /\ UNCHANGED <<blogVotes, comments, commentVotes, seq, nreq, now, cache, users>>

\* comment = get_object_or_404(Comment, id=comment_id); CommentVoteSerializer
CommentVoteStart(u, c, v) ==
    /\ Receive(MaxInterleaved)
    /\ IF c \notin DOMAIN comments
       THEN Respond("comment_vote.missing", 404, <<>>) /\ UNCHANGED reqs
       ELSE IF v \notin VoteTypes
       THEN Respond("comment_vote.invalid", 400, <<>>) /\ UNCHANGED reqs
       ELSE NewRequest("comment", u, c, v, comments[c]) /\ UNCHANGED last
    /\ UNCHANGED <<dbvars, now, cache, users>>

\* existing_vote = CommentVote.objects.filter(user=user, comment=comment).first()
\* and, for a vote of the other type, the counter arithmetic on the local copy
CommentVoteRead(r) ==
    /\ At(r, "comment", "read_vote")
    /\ LET q == reqs[r]
           e == ExistingCommentVote(q.user, q.target)
       IN  IF e = None
           THEN /\ reqs' = [reqs EXCEPT ![r].pc = "write_vote"]
                /\ UNCHANGED <<dbvars, last>>
           ELSE IF commentVotes[e].vote_type = q.vote
           THEN CommentVoteSame(q.obj) /\ Finish(r)
           ELSE /\ reqs' = [reqs EXCEPT ![r].pc = "write_vote", ![r].existing = e,
                               ![r].obj = FlipCommentCounts(q.obj,
                                              commentVotes[e].vote_type, q.vote)]
                /\ UNCHANGED <<dbvars, last>>
    /\ UNCHANGED <<nreq, now, cache, users>>

\* existing_vote.save(), or CommentVote.objects.create(...) and the increment
CommentVoteWrite(r) ==
    /\ At(r, "comment", "write_vote")
    /\ LET q == reqs[r]
           row == [user |-> q.user, comment |-> q.target, vote_type |-> q.vote]
       IN  IF q.existing # None
           THEN IF q.existing \in DOMAIN commentVotes
                   \/ CommentVoteInsertOk(q.user, q.target)
                THEN /\ commentVotes' = SaveRow(commentVotes, q.existing, row)
                     /\ reqs' = [reqs EXCEPT ![r].pc = "save"]
                     /\ UNCHANGED <<blogs, blogVotes, comments, seq, last>>
                ELSE /\ Respond("comment_vote.error", 500, <<>>)
                     /\ Finish(r)
                     /\ UNCHANGED dbvars
           ELSE IF CommentVoteInsertOk(q.user, q.target)
                THEN /\ commentVotes' = SaveRow(commentVotes, seq.commentVote + 1, row)
                     /\ seq' = [seq EXCEPT !.commentVote = @ + 1]
                     /\ reqs' = [reqs EXCEPT ![r].pc = "save",
                                    ![r].obj = IncCommentCounts(q.obj, q.vote)]
                     /\ UNCHANGED <<blogs, blogVotes, comments, last>>
                ELSE /\ Respond("comment_vote.error", 500, <<>>)
                     /\ Finish(r)
                     /\ UNCHANGED dbvars
    /\ UNCHANGED <<nreq, now, cache, users>>

\* the foreign keys Comment.blog and Comment.parent, checked when a Comment
\* row is inserted
CommentInsertOk(comment) ==
    /\ comment.blog \in DOMAIN blogs
    /\ comment.parent = None \/ comment.parent \in DOMAIN comments

\* comment.save() and the response
CommentVoteSave(r) ==
    /\ At(r, "comment", "save")
    /\ LET q == reqs[r]
       IN  IF /\ CommentCountsOk(q.obj)
              /\ q.target \in DOMAIN comments \/ CommentInsertOk(q.obj)
           THEN /\ comments' = SaveRow(comments, q.target, q.obj)
                /\ Respond(IF q.existing # None THEN "comment_vote.updated"
                                                ELSE "comment_vote.created",
                           200, <<>>)
           ELSE /\ comments' = comments
                /\ Respond("comment_vote.error", 500, <<>>)
    /\ Finish(r)
    /\ UNCHANGED <<blogs, blogVotes, commentVotes, seq, nreq, now, cache, users>>

\* a delete request between the statements of the vote requests in flight
Between(Handler) ==
    Receive(MaxInterleaved) /\ Handler /\ UNCHANGED <<reqs, now, cache, users>>

\* The interleaved runs start from a database that holds one blog and one
\* comment on it, both by user 1 and not voted on yet: the state after a
\* POST /blogs/add/ and a POST /blogs/1/comments/.
InitConc ==
    /\ blogs = (1 :> [author |-> 1, title |-> Draft.title,
                      category |-> Draft.category, tags |-> {},
                      is_published |-> FALSE,
                      upvote_count |-> 0, downvote_count |-> 0])
    /\ comments = (1 :> [blog |-> 1, author |-> 1, parent |-> None,
                         created_at |-> 0, upvotes |-> 0, downvotes |-> 0])
    /\ blogVotes = <<>>
    /\ commentVotes = <<>>
    /\ seq = [blog |-> 1, blogVote |-> 0, comment |-> 1, commentVote |-> 0]
    /\ reqs = <<>>
    /\ nreq = 0
    /\ last = [exit |-> "none", status |-> 0, body |-> <<>>]
    /\ now = 0
    /\ cache = <<>>
    /\ users = Registered

\* vote requests only, interleaved statement by statement
NextVotes ==
    \/ \E u \in Voters, b \in BlogIds, v \in VoteInputs : BlogVoteStart(u, b, v)
    \/ \E r \in DOMAIN reqs : BlogVoteRead(r)
    \/ \E r \in DOMAIN reqs : BlogVoteWrite(r)
    \/ \E r \in DOMAIN reqs : BlogVoteSave(r)
    \/ \E u \in Voters, c \in CommentIds, v \in VoteInputs : CommentVoteStart(u, c, v)
    \/ \E r \in DOMAIN reqs : CommentVoteRead(r)
    \/ \E r \in DOMAIN reqs : CommentVoteWrite(r)
    \/ \E r \in DOMAIN reqs : CommentVoteSave(r)

SpecVotes == InitConc /\ [][NextVotes]_vars

\* vote requests interleaved with each other and with delete requests
NextConc ==
    \/ NextVotes
    \/ \E u \in Voters, b \in BlogIds : Between(BlogDelete(u, b))
    \/ \E u \in Voters, b \in BlogIds : Between(BlogDestroy(u, b))
    \/ \E u \in Voters, c \in CommentIds : Between(CommentDelete(u, c))

SpecConc == InitConc /\ [][NextConc]_vars

\* ------------------------------------------------- comment trees as rendered
\* is_superuser of CustomUser (AbstractUser): set outside the views
\* (createsuperuser); in the model the last user is the superuser
Superusers == {NumUsers}

\* DELETE /comments/<c>/delete/ by user u, comment app: author or superuser
CommentDeleteApp(u, c) ==
    IF c \notin DOMAIN comments
    THEN Respond("comment_delete.missing", 404, <<>>) /\ UNCHANGED dbvars
    ELSE IF comments[c].author = u \/ u \in Superusers
    THEN DeleteComment(c) /\ Respond("comment_delete.deleted", 204, <<>>)
    ELSE Respond("comment_delete.denied", 403, <<>>) /\ UNCHANGED dbvars

\* Rows with equal created_at come back from ORDER BY in an order the
\* database chooses: by ascending or by descending primary key here.
TieOrders == {"pk", "reverse_pk"}

\* c sorts before d (or is d) under ORDER BY created_at
Precedes(c, d, tie) ==
    \/ comments[c].created_at < comments[d].created_at
    \/ /\ comments[c].created_at = comments[d].created_at
       /\ IF tie = "pk" THEN c <= d ELSE c >= d

\* queryset.order_by("created_at") of the comments in S
RECURSIVE OrderByCreatedAt(_, _)
OrderByCreatedAt(S, tie) ==
    IF S = {}
    THEN <<>>
    ELSE LET first == CHOOSE c \in S : \A d \in S : Precedes(c, d, tie)
         IN  <<first>> \o OrderByCreatedAt(S \ {first}, tie)

\* faulty variant: the replies are looked up by blog instead of by parent
ChildComments_OfBlog(c) ==
    {d \in DOMAIN comments : comments[d].blog = comments[c].blog /\ d # c}

\* Comment.objects.filter(parent=obj)
ChildComments(c) == {d \in DOMAIN comments : comments[d].parent = c}

\* CommentSerializer.get_replies: the pks of the replies, in order
get_replies(c, tie) == OrderByCreatedAt(ChildComments(c), tie)

\* CommentSerializer(comment).data: the comment with its replies embedded
RECURSIVE CommentData(_, _)
CommentData(c, tie) ==
    [id |-> c,
     replies |-> [i \in 1..Len(get_replies(c, tie)) |->
                     CommentData(get_replies(c, tie)[i], tie)]]

\* faulty variant: the filter on parent=None is forgotten
TopLevelComments_AnyParent(b) == {c \in DOMAIN comments : comments[c].blog = b}

\* Comment.objects.filter(blog=obj, parent=None)
TopLevelComments(b) ==
    {c \in DOMAIN comments : comments[c].blog = b /\ comments[c].parent = None}

\* BlogSerializer.get_comments
get_comments(b, tie) ==
    LET top == OrderByCreatedAt(TopLevelComments(b), tie)
    IN  [i \in 1..Len(top) |-> CommentData(top[i], tie)]

\* BlogSerializer.get_comments_count
get_comments_count(b) == Cardinality(CommentsOfBlog(b))

\* the clock advances
Tick(max) ==
    /\ now < max
    /\ now' = now + 1
    /\ UNCHANGED <<dbvars, reqs, nreq, last, cache, users>>

\* a request to the comment views, handled from start to end; the number of
\* requests is bounded by the number of comments ever created
InTree(Handler) ==
    Handler /\ UNCHANGED <<reqs, nreq, now, cache, users>>

\* The comment views start from a database that holds TreeBlogs blogs of
\* user 1 and no comment: the state after as many POST /blogs/add/.
InitTree ==
    /\ blogs = [b \in 1..TreeBlogs |->
                  [author |-> 1, title |-> Draft.title,
                   category |-> Draft.category, tags |-> {},
                   is_published |-> FALSE,
                   upvote_count |-> 0, downvote_count |-> 0]]
    /\ comments = <<>>
    /\ blogVotes = <<>>
    /\ commentVotes = <<>>
    /\ seq = [blog |-> TreeBlogs, blogVote |-> 0, comment |-> 0, commentVote |-> 0]
    /\ reqs = <<>>
    /\ nreq = 0
    /\ last = [exit |-> "none", status |-> 0, body |-> <<>>]
    /\ now = 0
    /\ cache = <<>>
    /\ users = Registered

\* The rendering reads no author: every comment is written, and deleted, by
\* user 1.
NextTree ==
    \/ \E b \in 1..TreeBlogs, p \in {None} \cup (1..MaxTreeComments) :
          seq.comment < MaxTreeComments /\ InTree(CommentCreate(1, b, p))
    \/ \E c \in 1..MaxTreeComments : InTree(CommentDelete(1, c))
    \/ Tick(MaxTreeTime)

SpecTree == InitTree /\ [][NextTree]_vars

\* Both comment delete views, with comments of every user and votes on them
NextCommentDelete ==
    \/ \E u \in Users, p \in {None} \cup CommentIds :
          seq.comment < MaxComments /\ Whole(CommentCreate(u, 1, p))
    \/ \E u \in Users, c \in CommentIds, v \in VoteTypes :
          Whole(CommentVotePost(u, c, v))
    \/ \E u \in Users, c \in CommentIds : Whole(CommentDelete(u, c))
    \/ \E u \in Users, c \in CommentIds : Whole(CommentDeleteApp(u, c))

SpecCommentDelete == InitTree /\ [][NextCommentDelete]_vars


\* ----------------------------------------------- listing: the queryset
\* The query parameters of GET /blogs/all/ that get_queryset reads.  A
\* parameter that is absent and one that is the empty string are both falsy
\* in the view: both are the empty text here; tags is the set of the values
\* of the repeated parameter.
NoText == <<>>

\* Blog.objects.filter(...).order_by("id") of the blogs in S: their pks in order
RECURSIVE OrderById(_)
OrderById(S) ==
    IF S = {}
    THEN <<>>
    ELSE <<Min(S)>> \o OrderById(S \ {Min(S)})

\* the rows of the join with the tag table restricted to names: each blog once
\* for every tag of it that is among names
RECURSIVE TagJoin(_, _)
TagJoin(rows, names) ==
    IF Len(rows) = 0
    THEN <<>>
    ELSE LET b == rows[1]
             n == Cardinality({t \in blogs[b].tags : Username(t) \in names})
         IN  [i \in 1..n |-> b] \o TagJoin(Tail(rows), names)

\* queryset.distinct(): equal rows once
RECURSIVE Distinct(_)
Distinct(rows) ==
    IF Len(rows) = 0
    THEN <<>>
    ELSE LET rest == Distinct(SubSeq(rows, 1, Len(rows) - 1))
             b == rows[Len(rows)]
         IN  IF \E i \in 1..Len(rest) : rest[i] = b THEN rest ELSE Append(rest, b)

\* faulty variant: the join with the tags is not followed by distinct()
get_queryset_NoDistinct(q) ==
    LET published == OrderById({b \in DOMAIN blogs : blogs[b].is_published})
        ByAuthor(b) == Username(blogs[b].author) = q.author
        ByCategory(b) == IContains(blogs[b].category, q.category)
        ByTitle(b) == IContains(blogs[b].title, q.search_title)
        q1 == IF q.author # NoText THEN SelectSeq(published, ByAuthor) ELSE published
        q2 == IF q.category # NoText THEN SelectSeq(q1, ByCategory) ELSE q1
        q3 == IF q.tags # {} THEN TagJoin(q2, q.tags) ELSE q2
    IN  IF q.search_title # NoText THEN SelectSeq(q3, ByTitle) ELSE q3

\* AllBlogsView.get_queryset: the pks of the resulting rows, in order
get_queryset(q) ==
    LET published == OrderById({b \in DOMAIN blogs : blogs[b].is_published})
        ByAuthor(b) == Username(blogs[b].author) = q.author
        ByCategory(b) == IContains(blogs[b].category, q.category)
        ByTitle(b) == IContains(blogs[b].title, q.search_title)
        q1 == IF q.author # NoText THEN SelectSeq(published, ByAuthor) ELSE published
        q2 == IF q.category # NoText THEN SelectSeq(q1, ByCategory) ELSE q1
        q3 == IF q.tags # {} THEN Distinct(TagJoin(q2, q.tags)) ELSE q2
    IN  IF q.search_title # NoText THEN SelectSeq(q3, ByTitle) ELSE q3

\* the rows and the query parameters the queryset is computed for
QueryBlogs == 2

Texts == {<<"A", "b">>, <<"b">>}

TagSets == {1..k : k \in 0..NumUsers}

\* the rows of the table: every author and tag set, with a published blog for
\* each way its title and category meet the searched texts, and a draft
\* that meets both
BlogRows ==
    {r \in [author : Users, title : Texts, category : Texts, tags : TagSets,
            is_published : BOOLEAN, upvote_count : {0}, downvote_count : {0}] :
        /\ r.is_published => (r.title = <<"A", "b">> \/ r.category = <<"A", "b">>)
        /\ ~r.is_published => (r.title = <<"A", "b">> /\ r.category = <<"A", "b">>)}

QueryParams ==
    [author : {NoText, Username(1), NoSuchName},
     category : {NoText, <<"a", "B">>},
     tags : {{}, {Username(NumUsers)}, {Username(u) : u \in Users} \cup {NoSuchName}},
     search_title : {NoText, <<"a">>}]

\* get_queryset applied to the query parameters q
ListQuery(q) ==
    /\ Receive(1)
    /\ Respond("list.queryset", 200, [params |-> q, rows |-> get_queryset(q)])
    /\ UNCHANGED <<dbvars, reqs, now, cache, users>>

InitQuery ==
    /\ blogs \in [1..QueryBlogs -> BlogRows]
    /\ comments = <<>>
    /\ blogVotes = <<>>
    /\ commentVotes = <<>>
    /\ seq = [blog |-> QueryBlogs, blogVote |-> 0, comment |-> 0, commentVote |-> 0]
    /\ reqs = <<>>
    /\ nreq = 0
    /\ last = [exit |-> "none", status |-> 0, body |-> <<>>]
    /\ now = 0
    /\ cache = <<>>
    /\ users = Registered

NextQuery == \E q \in QueryParams : ListQuery(q)

SpecQuery == InitQuery /\ [][NextQuery]_vars


\* ------------------------------------------------- blog create and update
\* request bodies of POST /blogs/add/: a draft, a published blog with a tag,
\* and a blog one of whose tags names no user
Posts ==
    {Draft,
     [Draft EXCEPT !.is_published = TRUE, !.tags = {Username(1)}],
     [Draft EXCEPT !.tags = {Username(1), NoSuchName}]}

\* request bodies of PUT /blogs/<b>/ (partial=True: any subset of the fields)
Patches ==
    {[is_published |-> TRUE],
     [title |-> <<"A", "b">>, category |-> <<"A", "b">>],
     [tags |-> {Username(NumUsers)}],
     [title |-> <<"A", "b">>, tags |-> {NoSuchName}]}

\* BlogSerializer.Meta.fields (content is not modelled)
SerializerFields ==
    {"id", "title", "category", "author", "tags", "is_published",
     "comments_count", "comments", "upvotes", "downvotes"}

\* faulty variant: no field of the serializer is read-only
ReadOnlyFields_None == {}

\* the fields the serializer never takes from a request body: the pk,
\* Meta.read_only_fields and the SerializerMethodFields
ReadOnlyFields ==
    {"id", "author", "upvotes", "downvotes", "comments_count", "comments"}

\* serializer.validated_data: the writable serializer fields of the body
validated_data(data) ==
    [f \in DOMAIN data \cap (SerializerFields \ ReadOnlyFields) |-> data[f]]

\* BlogSerializer.update: setattr(instance, attr, value) for every validated
\* field but tags, then instance.tags.set(tags)
Patched(row, data) ==
    [f \in DOMAIN row |->
        IF f \notin DOMAIN validated_data(data) THEN row[f]
        ELSE IF f = "tags" THEN {UserNamed(name) : name \in data.tags}
        ELSE data[f]]

\* BlogSerializer.is_valid on the body of an update: every tag names a user
ValidPatch(data) ==
    "tags" \in DOMAIN data => \A name \in data.tags : UserNamed(name) # None

\* faulty variant: the author of the blog is not compared with the requester
BlogUpdate_NoAuthorCheck(u, b, data) ==
    IF b \notin DOMAIN blogs
    THEN Respond("blog_update.missing", 404, <<>>) /\ UNCHANGED dbvars
    ELSE IF ~ValidPatch(data)
    THEN Respond("blog_update.invalid", 400, <<>>) /\ UNCHANGED dbvars
    ELSE /\ blogs' = [blogs EXCEPT ![b] = Patched(@, data)]
         /\ Respond("blog_update.updated", 200, <<>>)
         /\ UNCHANGED <<blogVotes, comments, commentVotes, seq>>

\* faulty variant: the fields that are valid are saved before the tags are
\* found invalid
BlogUpdate_SavesBeforeValidation(u, b, data) ==
    IF b \notin DOMAIN blogs
    THEN Respond("blog_update.missing", 404, <<>>) /\ UNCHANGED dbvars
    ELSE IF ~ValidPatch(data)
    THEN /\ blogs' = [blogs EXCEPT ![b] =
                        Patched(@, [f \in DOMAIN data \ {"tags"} |-> data[f]])]
         /\ Respond("blog_update.invalid", 400, <<>>)
         /\ UNCHANGED <<blogVotes, comments, commentVotes, seq>>
    ELSE IF blogs[b].author # u
    THEN Respond("blog_update.denied", 403, <<>>) /\ UNCHANGED dbvars
    ELSE /\ blogs' = [blogs EXCEPT ![b] = Patched(@, data)]
         /\ Respond("blog_update.updated", 200, <<>>)
         /\ UNCHANGED <<blogVotes, comments, commentVotes, seq>>

\* PUT /blogs/<b>/ with body data by user u: BlogDetailView.put, that is
\* get_object, serializer.is_valid, then BlogSerializer.update
BlogUpdate(u, b, data) ==
    IF b \notin DOMAIN blogs
    THEN Respond("blog_update.missing", 404, <<>>) /\ UNCHANGED dbvars
    ELSE IF ~ValidPatch(data)
    THEN Respond("blog_update.invalid", 400, <<>>) /\ UNCHANGED dbvars
    ELSE IF blogs[b].author # u
    THEN Respond("blog_update.denied", 403, <<>>) /\ UNCHANGED dbvars
    ELSE /\ blogs' = [blogs EXCEPT ![b] = Patched(@, data)]
         /\ Respond("blog_update.updated", 200, <<>>)
         /\ UNCHANGED <<blogVotes, comments, commentVotes, seq>>

\* Requests that create and edit, from a database that holds TreeBlogs drafts
\* of user 1; votes and comments are sent by the users in Voters
MaxEditRequests == 3

InEdit(Handler) ==
    Receive(MaxEditRequests) /\ Handler /\ UNCHANGED <<reqs, now, cache, users>>

NextEdit ==
    \/ \E u \in Users, post \in Posts : InEdit(BlogCreate(u, post))
    \/ \E u \in Users, b \in 1..TreeBlogs, data \in Patches :
          InEdit(BlogUpdate(u, b, data))
    \/ \E u \in Voters, b \in 1..TreeBlogs, v \in VoteInputs :
          InEdit(BlogVotePost(u, b, v))
    \/ \E u \in Voters, b \in 1..TreeBlogs, p \in {None} \cup (1..MaxEditRequests) :
          InEdit(CommentCreate(u, b, p))
    \/ \E u \in Voters, c \in 1..MaxEditRequests, v \in VoteInputs :
          InEdit(CommentVotePost(u, c, v))

SpecEdit == InitTree /\ [][NextEdit]_vars


\* ------------------------------------------------ listing: the cached view
\* BlogSerializer.get_upvotes / get_downvotes: the BlogVote rows of the blog
get_upvotes(b) ==
    Cardinality({i \in DOMAIN blogVotes :
                    blogVotes[i].blog = b /\ blogVotes[i].vote_type = "upvote"})

get_downvotes(b) ==
    Cardinality({i \in DOMAIN blogVotes :
                    blogVotes[i].blog = b /\ blogVotes[i].vote_type = "downvote"})

\* BlogSerializer(blog).data; equal creation times are rendered in pk order
BlogData(b) ==
    [id |-> b, title |-> blogs[b].title, category |-> blogs[b].category,
     author |-> blogs[b].author,
     tags |-> {Username(t) : t \in blogs[b].tags},
     is_published |-> blogs[b].is_published,
     comments_count |-> get_comments_count(b),
     comments |-> get_comments(b, "pk"),
     upvotes |-> get_upvotes(b), downvotes |-> get_downvotes(b)]

\* AllBlogsPagination.page_size
PageSize == 10

\* faulty variant: the listing is computed from every blog, drafts included
ListResponse_WithDrafts(q) ==
    LET rows == OrderById(DOMAIN blogs)
        n == IF Len(rows) < PageSize THEN Len(rows) ELSE PageSize
    IN  [count |-> Len(rows), results |-> [i \in 1..n |-> BlogData(rows[i])]]

\* get_paginated_response of the first page: the count of the queryset and
\* the rendering of its first page_size rows
ListResponse(q) ==
    LET rows == get_queryset(q)
        n == IF Len(rows) < PageSize THEN Len(rows) ELSE PageSize
    IN  [count |-> Len(rows), results |-> [i \in 1..n |-> BlogData(rows[i])]]

\* cache.set(..., timeout=60)
CacheTimeout == 60

\* A listing request r carries the query string as parsed by QueryDict:
\* author, category and search_title with one value each (NoText: absent)
\* and tags with the list of its values in the order of the query string
\* (getlist).

\* what get_queryset reads from the request: tags__username__in asks for
\* membership only
Filters(r) == [r EXCEPT !.tags = {r.tags[i] : i \in 1..Len(r.tags)}]

\* make_hashable(query_params): the items of the dict sorted by key, each
\* value made hashable; the tags list becomes the tuple of its values in
\* the order of the list
make_hashable(r) ==
    << <<"author", r.author>>, <<"category", r.category>>,
       <<"search_title", r.search_title>>, <<"tags", r.tags>> >>

\* f"all_blogs_{hash(...)}": the hash is taken to tell different tuples apart
cache_key(r) == <<"all_blogs", make_hashable(r)>>

\* cache.get(cache_key): the entry is there and has not expired
CacheHit(r) ==
    cache_key(r) \in DOMAIN cache /\ cache[cache_key(r)].expires > now

\* faulty variant: the response is computed and cached anew at every request
BlogList_Recomputes(r) ==
    /\ cache' = [k \in DOMAIN cache \cup {cache_key(r)} |->
                    IF k = cache_key(r)
                    THEN [expires |-> now + CacheTimeout,
                          data |-> ListResponse(Filters(r))]
                    ELSE cache[k]]
    /\ Respond("list.computed", 200, ListResponse(Filters(r)))
    /\ UNCHANGED dbvars

\* GET /blogs/all/ with the query string r: AllBlogsView.get
BlogList(r) ==
    IF CacheHit(r)
    THEN /\ Respond("list.cached", 200, cache[cache_key(r)].data)
         /\ UNCHANGED <<dbvars, cache, users>>
    ELSE /\ cache' = [k \in DOMAIN cache \cup {cache_key(r)} |->
                        IF k = cache_key(r)
                        THEN [expires |-> now + CacheTimeout,
                              data |-> ListResponse(Filters(r))]
                        ELSE cache[k]]
         /\ Respond("list.computed", 200, ListResponse(Filters(r)))
         /\ UNCHANGED dbvars

\* the query strings of the listing requests: no filter, and a search for
\* a title that a draft gets only when it is edited
NoFilter == [author |-> NoText, category |-> NoText, tags |-> <<>>,
             search_title |-> NoText]

ListParams == {NoFilter, [NoFilter EXCEPT !.search_title = <<"a">>]}

\* the clock is read when an entry is set at time 0, shortly before it
\* expires and when it expires
MaxSlack == 1

ClockValues == {0} \cup ((CacheTimeout - MaxSlack)..CacheTimeout)

\* time passes between two requests
Elapse(t) ==
    /\ t > now
    /\ now' = t
    /\ UNCHANGED <<dbvars, reqs, nreq, last, cache, users>>

MaxListRequests == 4

\* a write request: the views other than the listing never touch the cache
InList(Handler) ==
    Receive(MaxListRequests) /\ Handler /\ UNCHANGED <<reqs, now, cache, users>>

\* Blogs are created as drafts, voted and commented on by the users in
\* Voters; every user sends updates, with bodies that pass validation, and
\* deletes.
NextList ==
    \/ \E u \in Voters : seq.blog < MaxBlogs /\ InList(BlogCreate(u, Draft))
    \/ \E u \in Users, b \in BlogIds, data \in Patches :
          ValidPatch(data) /\ InList(BlogUpdate(u, b, data))
    \/ \E u \in Users, b \in BlogIds : InList(BlogDelete(u, b))
    \/ \E u \in Voters, b \in BlogIds, v \in VoteTypes : InList(BlogVotePost(u, b, v))
    \/ \E u \in Voters, b \in BlogIds :
          seq.comment < MaxComments /\ InList(CommentCreate(u, b, None))
    \/ \E q \in ListParams :
          Receive(MaxListRequests) /\ BlogList(q) /\ UNCHANGED <<reqs, now, users>>
    \/ \E t \in ClockValues : Elapse(t)

SpecList == Init /\ [][NextList]_vars

\* ------------------------------------- listing requests with repeated tags
\* the usernames sent as tags
TagNames == {Username(1), Username(NumUsers)}

\* the values of a repeated tags parameter, in the order of the query string
TagLists ==
    {<<>>} \cup {<<a>> : a \in TagNames}
           \cup {p \in TagNames \X TagNames : p[1] # p[2]}

\* listing requests that differ in the tags parameter only
TagRequests == {[NoFilter EXCEPT !.tags = t] : t \in TagLists}

MaxKeyRequests == 3

\* TreeBlogs published blogs of user 1; the first is tagged with user 1, the
\* others with user NumUsers
InitCacheKey ==
    /\ blogs = [b \in 1..TreeBlogs |->
                  [author |-> 1, title |-> Draft.title,
                   category |-> Draft.category,
                   tags |-> {IF b = 1 THEN 1 ELSE NumUsers},
                   is_published |-> TRUE,
                   upvote_count |-> 0, downvote_count |-> 0]]
    /\ comments = <<>>
    /\ blogVotes = <<>>
    /\ commentVotes = <<>>
    /\ seq = [blog |-> TreeBlogs, blogVote |-> 0, comment |-> 0, commentVote |-> 0]
    /\ reqs = <<>>
    /\ nreq = 0
    /\ last = [exit |-> "none", status |-> 0, body |-> <<>>]
    /\ now = 0
    /\ cache = <<>>
    /\ users = Registered

\* Listing requests with the tags in either order, blog votes by the users
\* in Voters, and the passing of time
NextCacheKey ==
    \/ \E r \in TagRequests :
          Receive(MaxKeyRequests) /\ BlogList(r) /\ UNCHANGED <<reqs, now, users>>
    \/ \E u \in Voters, b \in 1..TreeBlogs, v \in VoteTypes :
          Receive(MaxKeyRequests) /\ BlogVotePost(u, b, v)
              /\ UNCHANGED <<reqs, now, cache, users>>
    \/ \E t \in ClockValues : Elapse(t)

SpecCacheKey == InitCacheKey /\ [][NextCacheKey]_vars

\* ------------------------------------------- registration and the profile
\* BaseUserManager.normalize_email: the domain part is lowercased
normalize_email(e) == [e EXCEPT !.domain = LowerText(@)]

\* User.objects.filter(username=value).exists(), and the UniqueValidator
\* the ModelSerializer derives from AbstractUser.username unique=True
UsernameExists(name) == \E i \in DOMAIN users : users[i].username = name

\* User.objects.filter(email=value).exists(): an exact match
EmailExists(e) == \E i \in DOMAIN users : users[i].email = e

\* the usernames and email addresses the requests carry: the two spellings
\* of the domain are the same address to a mail server
RequestNames == {Username(1), Username(NumUsers)}

RequestEmails ==
    {Email(1), [Email(1) EXCEPT !.domain = <<"B">>], Email(NumUsers)}

\* Registration runs without a transaction: the queries of is_valid() and
\* the INSERT of create_user commit on their own, and the statements of
\* different requests interleave.

\* POST /register/ {username, email, password} arrives
RegisterStart(name, e) ==
    /\ Receive(MaxInterleaved)
    /\ reqs' = reqs @@ (Min((1..MaxInterleaved) \ DOMAIN reqs) :>
                  [kind |-> "register", pc |-> "validate",
                   username |-> name, email |-> e])
    /\ UNCHANGED <<dbvars, last, now, cache, users>>

\* serializer.is_valid(): the unique validator of username,
\* validate_username, validate_email
RegisterValidate(r) ==
    /\ At(r, "register", "validate")
    /\ IF UsernameExists(reqs[r].username) \/ EmailExists(reqs[r].email)
       THEN Respond("register.invalid", 400, <<>>) /\ Finish(r)
       ELSE reqs' = [reqs EXCEPT ![r].pc = "save"] /\ UNCHANGED last
    /\ UNCHANGED <<dbvars, nreq, now, cache, users>>

\* serializer.save(): User.objects.create_user normalizes the email and
\* INSERTs the row; the unique index on username refuses a second row of
\* the same username (IntegrityError, answered 500 by the middleware); no
\* index covers email
RegisterSave(r) ==
    /\ At(r, "register", "save")
    /\ IF UsernameExists(reqs[r].username)
       THEN Respond("register.error", 500, <<>>) /\ UNCHANGED users
       ELSE /\ users' = Append(users, [username |-> reqs[r].username,
                                       email |-> normalize_email(reqs[r].email)])
            /\ Respond("register.created", 201, <<>>)
    /\ Finish(r)
    /\ UNCHANGED <<dbvars, nreq, now, cache>>

\* request bodies of PUT /profile/ (partial=True): a new username, a new
\* email, or both
ProfilePatches ==
    [username : RequestNames] \cup [email : RequestEmails]
        \cup [username : RequestNames, email : RequestEmails]

\* PUT /profile/ by user u: UserProfileView.put.  The serializer checks a
\* new username against the other users (unique validator) and an email
\* for its form only; save() sets the given fields on the user's row
ProfileUpdate(u, data) ==
    /\ Receive(MaxInterleaved)
    /\ IF "username" \in DOMAIN data
          /\ \E i \in DOMAIN users \ {u} : users[i].username = data.username
       THEN Respond("profile.invalid", 400, <<>>) /\ UNCHANGED users
       ELSE /\ users' = [users EXCEPT ![u] =
                            [f \in DOMAIN @ |->
                                IF f \in DOMAIN data THEN data[f] ELSE @[f]]]
            /\ Respond("profile.updated", 200, <<>>)
    /\ UNCHANGED <<dbvars, reqs, now, cache>>

\* no account yet
InitUsers ==
    /\ blogs = <<>>
    /\ blogVotes = <<>>
    /\ comments = <<>>
    /\ commentVotes = <<>>
    /\ seq = [blog |-> 0, blogVote |-> 0, comment |-> 0, commentVote |-> 0]
    /\ reqs = <<>>
    /\ nreq = 0
    /\ last = [exit |-> "none", status |-> 0, body |-> <<>>]
    /\ now = 0
    /\ cache = <<>>
    /\ users = <<>>

\* registrations interleaved statement by statement, and profile updates
\* by the registered users
NextUsers ==
    \/ \E name \in RequestNames, e \in RequestEmails : RegisterStart(name, e)
    \/ \E r \in DOMAIN reqs : RegisterValidate(r)
    \/ \E r \in DOMAIN reqs : RegisterSave(r)
    \/ \E u \in DOMAIN users, data \in ProfilePatches : ProfileUpdate(u, data)

SpecUsers == InitUsers /\ [][NextUsers]_vars




\* ---------------------------------------------- what a blog update can set
\* request bodies of PUT /blogs/<b>/ that also name fields the serializer
\* does not accept: the author, the vote counters of the model and of the
\* rendering
ForgedPatches ==
    {[author |-> NumUsers, upvote_count |-> 1, downvote_count |-> 1],
     [title |-> <<"A", "b">>, author |-> NumUsers, upvotes |-> 1, downvotes |-> 1]}

\* Updates with any of these bodies, votes, comments and comment deletes on
\* TreeBlogs drafts of user 1; votes and comments are sent by the users in
\* Voters
NextFrame ==
    \/ \E u \in Users, b \in 1..TreeBlogs, data \in Patches \cup ForgedPatches :
          InEdit(BlogUpdate(u, b, data))
    \/ \E u \in Voters, b \in 1..TreeBlogs, v \in VoteTypes :
          InEdit(BlogVotePost(u, b, v))
    \/ \E u \in Voters, b \in 1..TreeBlogs, p \in {None} \cup (1..MaxEditRequests) :
          InEdit(CommentCreate(u, b, p))
    \/ \E u \in Voters, c \in 1..MaxEditRequests, v \in VoteTypes :
          InEdit(CommentVotePost(u, c, v))
    \/ \E u \in Users, c \in 1..MaxEditRequests : InEdit(CommentDelete(u, c))

SpecFrame == InitTree /\ [][NextFrame]_vars


\* ================================================================= claims
\* BlogVote rows of blog b with vote_type t
BlogVoteCount(b, t) ==
    Cardinality({i \in DOMAIN blogVotes :
                    blogVotes[i].blog = b /\ blogVotes[i].vote_type = t})

\* CommentVote rows of comment c with vote_type t
CommentVoteCount(c, t) ==
    Cardinality({i \in DOMAIN commentVotes :
                    commentVotes[i].comment = c /\ commentVotes[i].vote_type = t})

\* the stored counter of a Blog row / Comment row for vote_type t
BlogCounter(blog, t) ==
    IF t = "upvote" THEN blog.upvote_count ELSE blog.downvote_count

CommentCounter(comment, t) ==
    IF t = "upvote" THEN comment.upvotes ELSE comment.downvotes

\* C1: after any sequence of completed, non-overlapping requests, every
\* blog's upvote_count equals the number of its BlogVote rows with
\* vote_type upvote, and its downvote_count the number with downvote.
C1_BlogCountersMatchRows ==
    \A b \in DOMAIN blogs : \A t \in VoteTypes :
        BlogCounter(blogs[b], t) = BlogVoteCount(b, t)

\* two users have voted on a blog and one of them has just switched sides
C1_Witness ==
    /\ last.exit = "blog_vote.flipped"
    /\ \E b \in DOMAIN blogs :
          blogs[b].upvote_count = 1 /\ blogs[b].downvote_count = 1

\* C4: after any sequence of completed, non-overlapping requests, every
\* comment's upvotes equals the number of its CommentVote rows with
\* vote_type upvote, and its downvotes the number with downvote.
C4_CommentCountersMatchRows ==
    \A c \in DOMAIN comments : \A t \in VoteTypes :
        CommentCounter(comments[c], t) = CommentVoteCount(c, t)

\* a user's upvote on a comment has just been switched to a downvote
C4_Witness ==
    /\ last.exit = "comment_vote.updated"
    /\ \E c \in DOMAIN comments :
          comments[c].upvotes = 0 /\ comments[c].downvotes = 1

\* C5: a vote with a valid vote_type by a user who has no vote on the target
\* creates exactly one vote row (user, target, vote_type), increments the
\* counter of that type by 1 and leaves the other counter alone; for blog
\* votes and for comment votes.
C5_FirstVote ==
    [][ /\ \A u \in Users, b \in DOMAIN blogs, v \in VoteTypes :
            (BlogVoteIdsOf(u, b) = {} /\ BlogVotePost(u, b, v)) =>
              /\ \E i \in DOMAIN blogVotes' \ DOMAIN blogVotes :
                    /\ DOMAIN blogVotes' = DOMAIN blogVotes \cup {i}
                    /\ blogVotes'[i] = [user |-> u, blog |-> b, vote_type |-> v]
              /\ \A j \in DOMAIN blogVotes : blogVotes'[j] = blogVotes[j]
              /\ BlogCounter(blogs'[b], v) = BlogCounter(blogs[b], v) + 1
              /\ BlogCounter(blogs'[b], Other(v)) = BlogCounter(blogs[b], Other(v))
        /\ \A u \in Users, c \in DOMAIN comments, v \in VoteTypes :
            (CommentVoteIdsOf(u, c) = {} /\ CommentVotePost(u, c, v)) =>
              /\ \E i \in DOMAIN commentVotes' \ DOMAIN commentVotes :
                    /\ DOMAIN commentVotes' = DOMAIN commentVotes \cup {i}
                    /\ commentVotes'[i] =
                          [user |-> u, comment |-> c, vote_type |-> v]
              /\ \A j \in DOMAIN commentVotes : commentVotes'[j] = commentVotes[j]
              /\ CommentCounter(comments'[c], v) = CommentCounter(comments[c], v) + 1
              /\ CommentCounter(comments'[c], Other(v))
                    = CommentCounter(comments[c], Other(v))
      ]_vars

\* a first comment vote has just been cast, and a first blog vote before it
C5_Witness ==
    /\ last.exit = "comment_vote.created"
    /\ DOMAIN blogVotes # {}

\* C6: a vote whose vote_type differs from the user's existing vote on the
\* target sets that row's vote_type to the requested type, takes 1 off the
\* old type's counter (not below 0 for comments) and adds 1 to the new
\* type's counter; no vote row is created or deleted.
C6_ChangedVote ==
    [][ /\ \A u \in Users, b \in DOMAIN blogs, v \in VoteTypes :
            ( /\ ExistingBlogVote(u, b) # None
              /\ blogVotes[ExistingBlogVote(u, b)].vote_type = Other(v)
              /\ BlogVotePost(u, b, v) ) =>
              /\ blogVotes' = [blogVotes EXCEPT ![ExistingBlogVote(u, b)].vote_type = v]
              /\ BlogCounter(blogs'[b], Other(v)) = BlogCounter(blogs[b], Other(v)) - 1
              /\ BlogCounter(blogs'[b], v) = BlogCounter(blogs[b], v) + 1
        /\ \A u \in Users, c \in DOMAIN comments, v \in VoteTypes :
            ( /\ ExistingCommentVote(u, c) # None
              /\ commentVotes[ExistingCommentVote(u, c)].vote_type = Other(v)
              /\ CommentVotePost(u, c, v) ) =>
              /\ commentVotes' =
                    [commentVotes EXCEPT ![ExistingCommentVote(u, c)].vote_type = v]
              /\ CommentCounter(comments'[c], Other(v))
                    = Max0(CommentCounter(comments[c], Other(v)) - 1)
              /\ CommentCounter(comments'[c], v) = CommentCounter(comments[c], v) + 1
      ]_vars

\* a user's upvote on a blog has just been switched to a downvote
C6_Witness ==
    /\ last.exit = "blog_vote.flipped"
    /\ last.body = <<0, 1>>
    /\ \E i \in DOMAIN blogVotes : blogVotes[i].vote_type = "downvote"

\* C7: a blog vote with the vote_type the user's vote on that blog already
\* has writes nothing and answers 200 with the unchanged
\* {upvotes, downvotes}; and after any successful blog vote the same request
\* is such a repeat, so sending it twice leaves the state of sending it once.
C7_RepeatedBlogVote ==
    [][ \A u \in Users, b \in DOMAIN blogs, v \in VoteTypes :
          BlogVotePost(u, b, v) =>
            /\ ( /\ ExistingBlogVote(u, b) # None
                 /\ blogVotes[ExistingBlogVote(u, b)].vote_type = v ) =>
                   /\ UNCHANGED dbvars
                   /\ last'.status = 200
                   /\ last'.body = <<blogs[b].upvote_count, blogs[b].downvote_count>>
            /\ last'.status = 200 =>
                   /\ BlogVoteIdsOf(u, b)' # {}
                   /\ \A i \in BlogVoteIdsOf(u, b)' : blogVotes'[i].vote_type = v
      ]_vars

C7_Witness ==
    /\ last.exit = "blog_vote.same"
    /\ last.body = <<0, 1>>

\* C8: a comment vote with the vote_type the user's vote on that comment
\* already has is answered 400 and leaves the CommentVote rows and the
\* comment's upvotes and downvotes unchanged.
C8_RepeatedCommentVote ==
    [][ \A u \in Users, c \in DOMAIN comments, v \in VoteTypes :
          ( /\ ExistingCommentVote(u, c) # None
            /\ commentVotes[ExistingCommentVote(u, c)].vote_type = v
            /\ CommentVotePost(u, c, v) ) =>
              /\ last'.status = 400
              /\ commentVotes' = commentVotes
              /\ comments' = comments
      ]_vars

C8_Witness ==
    /\ last.exit = "comment_vote.already"
    /\ \E c \in DOMAIN comments : comments[c].upvotes + comments[c].downvotes = 1

\* no vote request is in flight
Quiescent == reqs = <<>>

\* C2: for every interleaving of concurrent vote requests on the same blog
\* or comment, once all of them have finished the stored counters equal the
\* numbers of vote rows of each type.
C2_CountersMatchRowsWhenQuiescent ==
    Quiescent => C1_BlogCountersMatchRows /\ C4_CommentCountersMatchRows

\* C3: in every reachable state, whatever the interleaving of vote and delete
\* requests, there is at most one BlogVote row per (user, blog) and at most
\* one CommentVote row per (user, comment).
C3_OneVotePerUserAndTarget ==
    /\ \A u \in Users, b \in BlogIds : Cardinality(BlogVoteIdsOf(u, b)) <= 1
    /\ \A u \in Users, c \in CommentIds : Cardinality(CommentVoteIdsOf(u, c)) <= 1

\* two requests of one user raced to create the BlogVote row and the database
\* refused the second INSERT
C3_Witness ==
    /\ last.exit = "blog_vote.error"
    /\ nreq = 2
    /\ 1 \in DOMAIN blogs
    /\ Cardinality(BlogVoteIdsOf(1, 1)) = 1

\* the users who hold a vote row on blog b / on comment c
BlogVoters(b) == {blogVotes[i].user : i \in BlogVotesOn(b)}

CommentVoters(c) == {commentVotes[i].user : i \in CommentVotesOn({c})}

\* C9: in every reachable state no blog's and no comment's upvote or downvote
\* counter exceeds the number of distinct users who hold a vote on it.
C9_CountersWithinVoters ==
    /\ \A b \in DOMAIN blogs : \A t \in VoteTypes :
          BlogCounter(blogs[b], t) <= Cardinality(BlogVoters(b))
    /\ \A c \in DOMAIN comments : \A t \in VoteTypes :
          CommentCounter(comments[c], t) <= Cardinality(CommentVoters(c))

\* C10: in every reachable state every comment refers to an existing blog and
\* (if it is a reply) an existing parent, and every vote row refers to an
\* existing blog or comment; so after a blog is deleted none of its comments,
\* at any depth, and none of their or its votes remains.
C10_NoOrphans ==
    /\ \A i \in DOMAIN blogVotes : blogVotes[i].blog \in DOMAIN blogs
    /\ \A c \in DOMAIN comments :
          /\ comments[c].blog \in DOMAIN blogs
          /\ comments[c].parent = None \/ comments[c].parent \in DOMAIN comments
    /\ \A i \in DOMAIN commentVotes : commentVotes[i].comment \in DOMAIN comments

\* a blog that held a comment with a vote on it has just been deleted
C10_Witness ==
    /\ last.exit \in {"blog_delete.deleted", "blog_destroy.deleted"}
    /\ seq.comment = 1
    /\ seq.commentVote = 1
    /\ comments = <<>> /\ commentVotes = <<>>

\* the pks of a rendered list of comments, and their creation times in order
RenderedIds(list) == [i \in 1..Len(list) |-> list[i].id]

Ascending(ids) ==
    \A i, j \in 1..Len(ids) :
        i < j => comments[ids[i]].created_at <= comments[ids[j]].created_at

\* every comment rendered in a list of comments, replies at any depth included
RECURSIVE Flatten(_)
Flatten(list) ==
    IF Len(list) = 0
    THEN <<>>
    ELSE <<list[1].id>> \o Flatten(list[1].replies)
            \o Flatten(SubSeq(list, 2, Len(list)))

Elements(ids) == {ids[i] : i \in 1..Len(ids)}

\* C11: for every comment, in every reachable state and whatever order the
\* database gives to equal creation times, the rendered replies are exactly
\* the comments whose parent is that comment, each once, in ascending order
\* of creation time.
C11_RepliesAreTheChildren ==
    \A c \in DOMAIN comments : \A tie \in TieOrders :
        LET ids == get_replies(c, tie)
        IN  /\ Elements(ids) = {d \in DOMAIN comments : comments[d].parent = c}
            /\ Len(ids) = Cardinality(Elements(ids))
            /\ Ascending(ids)

\* a comment has two replies, the older of them with the higher pk (the first
\* reply was deleted, or both were created at the same instant)
C11_Witness ==
    /\ last.exit = "comment_create.created"
    /\ \E c, d, e \in DOMAIN comments :
          /\ comments[d].parent = c /\ comments[e].parent = c /\ d < e
          /\ comments[d].created_at = comments[e].created_at
          /\ get_replies(c, "reverse_pk") = <<e, d>>

\* C12: the rendering of a blog has at its root exactly the blog's comments
\* without parent in ascending order of creation time, and the whole nested
\* rendering holds every comment of the blog exactly once (as many nodes as
\* comments_count) and no comment of another blog.
C12_BlogTreeIsTheBlogsComments ==
    \A b \in DOMAIN blogs : \A tie \in TieOrders :
        LET roots == RenderedIds(get_comments(b, tie))
            nodes == Flatten(get_comments(b, tie))
        IN  /\ Elements(roots) =
                  {c \in DOMAIN comments :
                      comments[c].blog = b /\ comments[c].parent = None}
            /\ Len(roots) = Cardinality(Elements(roots))
            /\ Ascending(roots)
            /\ Elements(nodes) = {c \in DOMAIN comments : comments[c].blog = b}
            /\ Len(nodes) = Cardinality(Elements(nodes))
            /\ Len(nodes) = get_comments_count(b)

\* blog 1 holds a comment and a reply to it, blog 2 a comment of its own
C12_Witness ==
    /\ Flatten(get_comments(1, "pk")) = <<1, 2>>
    /\ Len(get_comments(1, "pk")) = 1
    /\ Flatten(get_comments(2, "pk")) = <<3>>

\* following parent from c ends at parent = null within fuel steps
RECURSIVE ReachesRoot(_, _)
ReachesRoot(c, fuel) ==
    IF c = None THEN TRUE
    ELSE IF fuel = 0 \/ c \notin DOMAIN comments THEN FALSE
    ELSE ReachesRoot(comments[c].parent, fuel - 1)

\* C13: in every state reached through comment creates and deletes the
\* parent relation is acyclic: from every comment the parent pointers lead to
\* a comment without parent in finitely many steps; no comment is its own
\* parent or ancestor.
C13_ParentsAcyclic ==
    \A c \in DOMAIN comments :
        /\ comments[c].parent # c
        /\ ReachesRoot(c, Cardinality(DOMAIN comments))

\* a chain of three comments: a reply to a reply
C13_Witness ==
    \E c, d, e \in DOMAIN comments :
        /\ comments[c].parent = None
        /\ comments[d].parent = c
        /\ comments[e].parent = d

\* C19: a comment delete request by a user who is not the comment's author
\* (nor, in the comment app's view, a superuser) is answered 403 and leaves
\* comments and votes as they are; a comment delete request removes the
\* comment only for its author (or a superuser, comment app's view).
C19_CommentDeleteByAuthorOnly ==
    [][ \A u \in Users, c \in DOMAIN comments :
          /\ (CommentDelete(u, c) /\ comments[c].author # u) =>
                last'.status = 403 /\ UNCHANGED dbvars
          /\ (CommentDeleteApp(u, c) /\ comments[c].author # u
                                     /\ u \notin Superusers) =>
                last'.status = 403 /\ UNCHANGED dbvars
          /\ (CommentDelete(u, c) /\ c \notin DOMAIN comments') =>
                comments[c].author = u
          /\ (CommentDeleteApp(u, c) /\ c \notin DOMAIN comments') =>
                (comments[c].author = u \/ u \in Superusers)
      ]_vars

\* a delete request was refused while a comment had a reply and a vote
C19_Witness ==
    /\ last.exit = "comment_delete.denied"
    /\ \E c, d \in DOMAIN comments :
          /\ comments[d].parent = c
          /\ \E i \in DOMAIN commentVotes : commentVotes[i].comment = c


\* C18: over both routes that delete a blog (DELETE /blogs/<b>/ and
\* DELETE /blogs/<b>/delete/), the blog is removed only when the requester is
\* its author or a superuser; a delete request by any other user leaves
\* blogs, comments and votes as they are.
C18_BlogDeleteByAuthorOnly ==
    [][ \A u \in Users, b \in DOMAIN blogs :
          (BlogDelete(u, b) \/ BlogDestroy(u, b)) =>
              IF blogs[b].author = u \/ u \in Superusers
              THEN TRUE
              ELSE b \in DOMAIN blogs' /\ UNCHANGED dbvars
      ]_vars


\* blog b is published and passes every filter that q supplies
Listed(b, q) ==
    /\ blogs[b].is_published
    /\ q.author # NoText => Username(blogs[b].author) = q.author
    /\ q.category # NoText => IContains(blogs[b].category, q.category)
    /\ q.tags # {} => \E t \in blogs[b].tags : Username(t) \in q.tags
    /\ q.search_title # NoText => IContains(blogs[b].title, q.search_title)

\* C14: the queryset of the listing holds a blog if and only if the blog is
\* published and satisfies every supplied filter (author's username equal,
\* category contains the text whatever the letter case, one of its tags among
\* the supplied usernames, title contains the text whatever the letter case);
\* each such blog is there once, and the blogs are in ascending order of id.
C14_QuerysetIsTheFilteredBlogs ==
    last.exit = "list.queryset" =>
        LET q == last.body.params
            rows == last.body.rows
        IN  /\ {rows[i] : i \in 1..Len(rows)} = {b \in DOMAIN blogs : Listed(b, q)}
            /\ \A i, j \in 1..Len(rows) : i < j => rows[i] < rows[j]

\* two blogs are listed for a category in another letter case and for tags
\* of which the first blog has two
C14_Witness ==
    /\ last.exit = "list.queryset"
    /\ last.body.rows = <<1, 2>>
    /\ last.body.params.category = <<"a", "B">>
    /\ Cardinality({t \in blogs[1].tags : Username(t) \in last.body.params.tags}) = 2


\* the fields of a blog that an update request may set
Editable(row) ==
    [title |-> row.title, category |-> row.category, tags |-> row.tags,
     is_published |-> row.is_published]

\* the fields of a blog change only at an update request by its author
OnlyAuthorEdits ==
    \A b \in DOMAIN blogs :
        (b \in DOMAIN blogs' /\ Editable(blogs'[b]) # Editable(blogs[b])) =>
            \E data \in Patches : BlogUpdate(blogs[b].author, b, data)

\* C17 as stated: every update request on a blog by a user who is not its
\* author is answered 403 (permission denied) and leaves the blog's title,
\* category, tags and is_published as they were; these fields change only
\* at an update request by the author.
C17_NonAuthorAlwaysDenied ==
    [][ /\ \A u \in Users, b \in DOMAIN blogs, data \in Patches :
             (blogs[b].author # u /\ BlogUpdate(u, b, data)) =>
                 last'.status = 403 /\ UNCHANGED dbvars
        /\ OnlyAuthorEdits
      ]_vars

\* C17 amended: an update request on a blog by a user who is not its author
\* is rejected, with 403 (permission denied) when its body passes validation
\* and with 400 (validation error) when it does not, and leaves the blog's
\* title, category, tags and is_published as they were; these fields change
\* only at an update request by the author.
C17_BlogUpdateByAuthorOnly ==
    [][ /\ \A u \in Users, b \in DOMAIN blogs, data \in Patches :
             (blogs[b].author # u /\ BlogUpdate(u, b, data)) =>
                 /\ last'.status = IF ValidPatch(data) THEN 403 ELSE 400
                 /\ UNCHANGED dbvars
        /\ OnlyAuthorEdits
      ]_vars

\* a user who is not the author was refused on a blog that its author had
\* published
C17_Witness ==
    /\ last.exit = "blog_update.denied"
    /\ \A b \in 1..TreeBlogs : b \in DOMAIN blogs /\ blogs[b].is_published

\* C20: a request answered 400 leaves blogs, tags, comments, vote rows and
\* counters as they were: a vote of a type other than upvote and downvote, a
\* repeated comment vote, a comment whose parent does not exist or belongs to
\* another blog, a blog create or update with a tag that names no user.
C20_ValidationErrorChangesNothing ==
    [][ (nreq' # nreq /\ last'.status = 400) => UNCHANGED dbvars ]_vars

\* a reply to a comment of another blog was refused, with rows in every table
\* but the comment votes
C20_Witness ==
    /\ last.exit = "comment_create.other_blog"
    /\ blogVotes # <<>>


\* the time at which the cached response for q was computed
ComputedAt(q) == cache[cache_key(q)].expires - CacheTimeout

\* C15: a listing request whose query parameters have a response cached less
\* than CacheTimeout (60) time units ago is answered with exactly that
\* response and leaves the cache as it is, whatever was written since; a
\* listing request without such an entry is answered from the current data,
\* and its response is cached; no other request, and no passing of time,
\* removes or changes a cache entry.
C15_CachedListingServedUntilExpiry ==
    [][ /\ \A q \in ListParams :
             BlogList(q) =>
                 IF cache_key(q) \in DOMAIN cache
                        /\ now - ComputedAt(q) < CacheTimeout
                 THEN last'.body = cache[cache_key(q)].data /\ cache' = cache
                 ELSE /\ last'.body = ListResponse(Filters(q))
                      /\ cache' = [k \in DOMAIN cache \cup {cache_key(q)} |->
                                      IF k = cache_key(q)
                                      THEN [expires |-> now + CacheTimeout,
                                            data |-> last'.body]
                                      ELSE cache[k]]
        /\ cache' # cache => (nreq' # nreq /\ last'.exit = "list.computed")
      ]_vars

\* time has passed and the blog has changed since the response was cached;
\* the request was answered with the cached response
C15_Witness ==
    /\ last.exit = "list.cached"
    /\ now >= CacheTimeout - MaxSlack
    /\ \E q \in ListParams :
          /\ CacheHit(q)
          /\ last.body = cache[cache_key(q)].data
          /\ cache[cache_key(q)].data # ListResponse(Filters(q))

\* the pks of the blogs in a listing response
ListedIds(body) == {body.results[i].id : i \in 1..Len(body.results)}

C22_MissingTargetIsNotFound ==
    [][ /\ \A u \in Users, b \in BlogIds \ DOMAIN blogs :
             /\ \A v \in VoteInputs :
                    BlogVotePost(u, b, v) => last'.status = 404 /\ UNCHANGED dbvars
             /\ BlogDelete(u, b) => last'.status = 404 /\ UNCHANGED dbvars
             /\ \A p \in {None} \cup CommentIds :
                    CommentCreate(u, b, p) => last'.status = 404 /\ UNCHANGED dbvars
        /\ \A u \in Users, c \in CommentIds \ DOMAIN comments :
             /\ \A v \in VoteInputs :
                    CommentVotePost(u, c, v) => last'.status = 404 /\ UNCHANGED dbvars
             /\ CommentDelete(u, c) => last'.status = 404 /\ UNCHANGED dbvars
      ]_vars


\* the vote counters and the author of a blog row
Counted(row) ==
    [upvote_count |-> row.upvote_count, downvote_count |-> row.downvote_count,
     author |-> row.author]

\* C24: the upvote_count and downvote_count of a blog change only at a blog
\* vote request on that blog, and its author never changes: every other
\* step (a blog update whatever its body and requester, a comment create,
\* a comment vote, a comment delete) leaves the three as they are.
C24_CountersChangeOnlyByBlogVote ==
    [][ \A b \in DOMAIN blogs :
          (b \in DOMAIN blogs' /\ Counted(blogs'[b]) # Counted(blogs[b])) =>
              /\ blogs'[b].author = blogs[b].author
              /\ \E u \in Users, v \in VoteTypes : BlogVotePost(u, b, v)
      ]_vars

\* the author's update with a body naming author and counters was accepted
\* on a blog that has a vote: the title is the new one, the counters and the
\* author are the old ones
C24_Witness ==
    /\ last.exit = "blog_update.updated"
    /\ \E b \in DOMAIN blogs :
          /\ blogs[b].title = <<"A", "b">>
          /\ blogs[b].category = <<"b">>
          /\ blogs[b].upvote_count = 1 /\ blogs[b].downvote_count = 0
          /\ blogs[b].author = 1


\* C25: in every state of every interleaving of blog vote requests, the
\* upvote_count and downvote_count a request has computed on its copy of the
\* blog row, which it is about to store, are not below 0.
C25_NoNegativeCounterComputed ==
    \A r \in DOMAIN reqs :
        reqs[r].kind = "blog" =>
            reqs[r].obj.upvote_count >= 0 /\ reqs[r].obj.downvote_count >= 0


\* every comment that has a parent belongs to the blog of its parent
RepliesOnParentsBlog(table) ==
    \A c \in DOMAIN table :
        table[c].parent # None =>
            /\ table[c].parent \in DOMAIN table
            /\ table[table[c].parent].blog = table[c].blog

\* C26: a comment that has a parent belongs to the blog its parent belongs
\* to, in the first state (no comment) and after every step; and a comment
\* create request that names a parent of another blog than the one in the
\* URL is answered 400 and creates nothing.
C26_ReplyOnParentsBlog ==
    [][ /\ RepliesOnParentsBlog(comments')
        /\ \A u \in Users, b \in DOMAIN blogs, p \in DOMAIN comments :
              (comments[p].blog # b /\ CommentCreate(u, b, p)) =>
                  last'.status = 400 /\ UNCHANGED dbvars
      ]_vars

\* a reply to a comment of the other blog was refused while that comment had
\* a reply on its own blog
C26_Witness ==
    /\ last.exit = "comment_create.other_blog"
    /\ \E c, d \in DOMAIN comments : comments[d].parent = c

\* comment d is comment c or lies below it: following parent from d leads to c
RECURSIVE IsUnder(_, _, _)
IsUnder(d, c, fuel) ==
    IF d = c THEN TRUE
    ELSE IF fuel = 0 \/ d = None \/ d \notin DOMAIN comments THEN FALSE
    ELSE IsUnder(comments[d].parent, c, fuel - 1)

\* the comment c together with its descendants at any depth
Descendants(c) ==
    {d \in DOMAIN comments : IsUnder(d, c, Cardinality(DOMAIN comments))}

\* C27: a comment delete request that deletes (either delete view) removes
\* exactly the comment and all its descendants and exactly the comment votes
\* on them, leaves every other comment and comment vote as it was, leaves no
\* comment whose parent does not exist, and lowers the comments_count of the
\* comment's blog by the size of the deleted subtree.
C27_CommentDeleteCascades ==
    [][ \A u \in Users, c \in DOMAIN comments :
          ( /\ CommentDelete(u, c) \/ CommentDeleteApp(u, c)
            /\ last'.status = 204 ) =>
              \A gone \in {Descendants(c)}, b \in {comments[c].blog} :
                  /\ DOMAIN comments' = DOMAIN comments \ gone
                  /\ \A d \in DOMAIN comments' : comments'[d] = comments[d]
                  /\ DOMAIN commentVotes' =
                        {i \in DOMAIN commentVotes :
                            commentVotes[i].comment \notin gone}
                  /\ \A i \in DOMAIN commentVotes' :
                        commentVotes'[i] = commentVotes[i]
                  /\ \A d \in DOMAIN comments' :
                        comments'[d].parent # None =>
                            comments'[d].parent \in DOMAIN comments'
                  /\ get_comments_count(b)' =
                        get_comments_count(b) - Cardinality(gone)
      ]_vars

\* one delete request removed a comment together with a reply and a vote:
\* every request but the last created a comment or cast a new comment vote,
\* and nothing is left of them
C27_Witness ==
    /\ last.exit = "comment_delete.deleted"
    /\ seq.comment >= 2
    /\ seq.commentVote >= 1
    /\ nreq = seq.comment + seq.commentVote + 1
    /\ comments = <<>>
    /\ commentVotes = <<>>


\* the number of times x occurs in the list
Occurrences(list, x) == Cardinality({i \in 1..Len(list) : list[i] = x})

\* two listing requests whose query parameters are equal except for the
\* order in which the repeated tags parameter gives its values
SameButTagOrder(r1, r2) ==
    /\ [r1 EXCEPT !.tags = <<>>] = [r2 EXCEPT !.tags = <<>>]
    /\ Len(r1.tags) = Len(r2.tags)
    /\ \A i \in 1..Len(r1.tags) :
          Occurrences(r1.tags, r1.tags[i]) = Occurrences(r2.tags, r1.tags[i])

\* C23: two listing requests whose query parameters are equal except for the
\* order of the repeated tags parameter have the same cache key, so a
\* request that arrives while the response to the other is cached is served
\* from that entry.
C23_TagOrderSharesCacheEntry ==
    [][ \A r1, r2 \in TagRequests :
          (SameButTagOrder(r1, r2) /\ CacheHit(r1) /\ BlogList(r2)) =>
              /\ cache_key(r2) = cache_key(r1)
              /\ last'.exit = "list.cached"
              /\ last'.body = cache[cache_key(r1)].data
              /\ cache' = cache
      ]_vars


\* no two users have the same username
UsernamesUnique ==
    \A i, j \in DOMAIN users :
        i # j => users[i].username # users[j].username

\* no two users have the same email
EmailsUnique ==
    \A i, j \in DOMAIN users : i # j => users[i].email # users[j].email

\* C21: in every state reached through registration (two registrations may
\* run concurrently with the same username or email) and profile update, no
\* two users have the same username and no two users have the same email.
C21_UsernamesAndEmailsUnique == UsernamesUnique /\ EmailsUnique


====
